---- MODULE Spec2Model ----
(***************************************************************************)
(* The request executor and the three SSE streaming operations of the      *)
(* LnBot client (src/src/client.ts) with its error classes                 *)
(* (src/src/errors.ts).                                                    *)
(*                                                                         *)
(* Text is a sequence of one-character strings.  A byte is written as the  *)
(* character it encodes when it is ASCII; the two bytes Lead, Cont are the *)
(* UTF-8 encoding of the one non-ASCII character EAcute.  A JSON string    *)
(* literal is one atom of the text (it is never cut by the model).         *)
(***************************************************************************)
EXTENDS Integers, Sequences, FiniteSets, TLC

\* A stream body has at most MaxLines lines (the last one possibly without its
\* line feed) and at most MaxBodyBytes bytes.
MaxLines == 3
MaxBodyBytes == 24

----------------------------------------------------------------------------
(* Characters and bytes *)

LF == "\n"
CR == "\r"
Lead == "0xC3"
Cont == "0xA9"
EAcute == "U+00E9"
Replacement == "U+FFFD"

NoValue == [type |-> "undefined"]

----------------------------------------------------------------------------
(* String primitives used by the code *)

\* s.startsWith(p)
StartsWith(s, p) == Len(s) >= Len(p) /\ SubSeq(s, 1, Len(p)) = p

\* s.slice(n)
Slice(s, n) == SubSeq(s, n + 1, Len(s))

\* A trim that leaves carriage returns in place.
IsSpaceNoCR(c) == c \in {" ", "\t", LF}

IsSpace(c) == c \in {" ", "\t", CR, LF}

RECURSIVE TrimStart(_)
TrimStart(s) ==
  IF s # <<>> /\ IsSpace(Head(s)) THEN TrimStart(Tail(s)) ELSE s

RECURSIVE TrimEnd(_)
TrimEnd(s) ==
  IF s # <<>> /\ IsSpace(s[Len(s)]) THEN TrimEnd(SubSeq(s, 1, Len(s) - 1)) ELSE s

\* s.trim()
Trim(s) == TrimEnd(TrimStart(s))

\* Index of the first line feed of s, 0 when there is none.
RECURSIVE IndexOfLF(_, _)
IndexOfLF(s, i) ==
  IF i > Len(s) THEN 0 ELSE IF s[i] = LF THEN i ELSE IndexOfLF(s, i + 1)

\* s.split("\n"): always at least one piece, the last one is what follows the
\* last line feed.
RECURSIVE Split(_)
Split(s) ==
  LET i == IndexOfLF(s, 1) IN
  IF i = 0 THEN <<s>>
  ELSE <<SubSeq(s, 1, i - 1)>> \o Split(SubSeq(s, i + 1, Len(s)))

\* A loop that also takes the piece after the last line feed for a line.
NotPopped(parts) == parts

\* A loop that walks the lines from the last to the first.
PoppedReversed(parts) ==
  [i \in 1..(Len(parts) - 1) |-> parts[Len(parts) - i]]

\* The array left by lines.pop(), and what pop() returned.
Popped(parts) == SubSeq(parts, 1, Len(parts) - 1)
PopValue(parts) == parts[Len(parts)]

\* hay.includes(needle)
Includes(hay, needle) ==
  \E i \in 1..(Len(hay) + 1) :
    /\ i + Len(needle) - 1 <= Len(hay)
    /\ SubSeq(hay, i, i + Len(needle) - 1) = needle

----------------------------------------------------------------------------
(* TextDecoder.decode(value, { stream: true }) *)

\* pend is the decoder's incomplete byte sequence kept from the chunk before.
\* An ASCII byte decodes to its own character.
RECURSIVE DecodeFrom(_, _, _)
DecodeFrom(pend, bytes, out) ==
  IF pend = <<>> /\ \A i \in 1..Len(bytes) : bytes[i] \notin {Lead, Cont}
    THEN [text |-> out \o bytes, pend |-> <<>>]
  ELSE IF bytes = <<>> THEN [text |-> out, pend |-> pend]
  ELSE LET b == Head(bytes) IN
    IF pend # <<>> THEN
      IF b = Cont THEN DecodeFrom(<<>>, Tail(bytes), Append(out, EAcute))
      ELSE DecodeFrom(<<>>, bytes, Append(out, Replacement))
    ELSE IF b = Lead THEN DecodeFrom(<<Lead>>, Tail(bytes), out)
    ELSE IF b = Cont THEN DecodeFrom(<<>>, Tail(bytes), Append(out, Replacement))
    ELSE DecodeFrom(<<>>, Tail(bytes), Append(out, b))

\* A decoder without the stream option flushes an incomplete sequence as U+FFFD
\* at the end of every chunk.
DecodeNoStream(pend, bytes) ==
  LET d == DecodeFrom(<<>>, bytes, <<>>) IN
  [text |-> IF d.pend = <<>> THEN d.text ELSE Append(d.text, Replacement),
   pend |-> <<>>]

Decode(pend, bytes) == DecodeFrom(pend, bytes, <<>>)

\* Response.text(): the whole body decoded at once, an incomplete tail flushed.
BodyText(bytes) ==
  LET d == DecodeFrom(<<>>, bytes, <<>>) IN
  IF d.pend = <<>> THEN d.text ELSE Append(d.text, Replacement)

----------------------------------------------------------------------------
(* JavaScript values and JSON *)

Str(s) == [type |-> "string", s |-> s]
Num(n) == [type |-> "number", n |-> n]
Null == [type |-> "null"]
Obj(f) == [type |-> "object", fields |-> f]
EmptyFields == [k \in {} |-> NoValue]

\* The string literals of the texts, each one atom, and the string each denotes.
StrLits == {"\"message\"", "\"error\"", "\"m\"", "\"e\"", "\"\""}
StrVal(lit) ==
  CASE lit = "\"message\"" -> "message"
    [] lit = "\"error\"" -> "error"
    [] lit = "\"m\"" -> "m"
    [] lit = "\"e\"" -> "e"
    [] lit = "\"\"" -> ""
StrLit(s) == CHOOSE lit \in StrLits : StrVal(lit) = s

Digits == {"0", "1", "2"}
DigitVal(d) == CASE d = "0" -> 0 [] d = "1" -> 1 [] d = "2" -> 2
DigitOf(n) == CHOOSE d \in Digits : DigitVal(d) = n

RECURSIVE NumVal(_)
NumVal(s) ==
  IF s = <<>> THEN 0 ELSE 10 * NumVal(SubSeq(s, 1, Len(s) - 1)) + DigitVal(s[Len(s)])

RECURSIVE NumText(_)
NumText(n) ==
  IF n < 10 THEN <<DigitOf(n)>> ELSE Append(NumText(n \div 10), DigitOf(n % 10))

RECURSIVE IndexOf(_, _, _)
IndexOf(s, c, i) ==
  IF i > Len(s) THEN 0 ELSE IF s[i] = c THEN i ELSE IndexOf(s, c, i + 1)

JsonFail == [ok |-> FALSE, value |-> NoValue]
JsonOk(v) == [ok |-> TRUE, value |-> v]

\* JSON.parse(text) for the JSON this model writes: numbers, null, string
\* literals and objects whose member values hold no comma.  ok = FALSE stands for
\* the SyntaxError JSON.parse throws.
RECURSIVE JsonParse(_)
RECURSIVE JsonMembers(_)
JsonMembers(t) ==
  LET c == IndexOf(t, ",", 1)
      first == IF c = 0 THEN t ELSE SubSeq(t, 1, c - 1)
      colon == IndexOf(first, ":", 1)
      key == Trim(SubSeq(first, 1, colon - 1))
      val == JsonParse(SubSeq(first, colon + 1, Len(first)))
      rest == IF c = 0 THEN [ok |-> TRUE, fields |-> EmptyFields]
              ELSE JsonMembers(SubSeq(t, c + 1, Len(t)))
  IN
  IF colon = 0 \/ Len(key) # 1 THEN [ok |-> FALSE, fields |-> EmptyFields]
  ELSE IF key[1] \notin StrLits \/ ~val.ok \/ ~rest.ok
    THEN [ok |-> FALSE, fields |-> EmptyFields]
  ELSE [ok |-> TRUE, fields |-> rest.fields @@ (StrVal(key[1]) :> val.value)]

JsonParse(text) ==
  LET t == Trim(text) IN
  IF t = <<>> THEN JsonFail
  ELSE IF \A i \in 1..Len(t) : t[i] \in Digits
    THEN IF Len(t) > 1 /\ t[1] = "0" THEN JsonFail ELSE JsonOk(Num(NumVal(t)))
  ELSE IF t = <<"n", "u", "l", "l">> THEN JsonOk(Null)
  ELSE IF Len(t) = 1 /\ t[1] \in StrLits THEN JsonOk(Str(StrVal(t[1])))
  ELSE IF Len(t) >= 2 /\ t[1] = "{" /\ t[Len(t)] = "}"
    THEN LET inner == Trim(SubSeq(t, 2, Len(t) - 1)) IN
         IF inner = <<>> THEN JsonOk(Obj(EmptyFields))
         ELSE LET m == JsonMembers(inner) IN
              IF m.ok THEN JsonOk(Obj(m.fields)) ELSE JsonFail
  ELSE JsonFail

\* JSON.stringify(value) for the same values.
RECURSIVE JsonStringify(_)
RECURSIVE StringifyFields(_, _)
StringifyFields(f, keys) ==
  IF keys = {} THEN <<>>
  ELSE LET k == CHOOSE x \in keys : TRUE
           one == <<StrLit(k), ":">> \o JsonStringify(f[k])
       IN IF keys = {k} THEN one
          ELSE one \o <<",">> \o StringifyFields(f, keys \ {k})

JsonStringify(v) ==
  CASE v.type = "number" -> NumText(v.n)
    [] v.type = "null" -> <<"n", "u", "l", "l">>
    [] v.type = "string" -> <<StrLit(v.s)>>
    [] v.type = "object" -> <<"{">> \o StringifyFields(v.fields, DOMAIN v.fields) \o <<"}">>

\* A value used as a condition.
Truthy(v) ==
  CASE v.type = "undefined" -> FALSE
    [] v.type = "null" -> FALSE
    [] v.type = "string" -> v.s # ""
    [] v.type = "number" -> v.n # 0
    [] OTHER -> TRUE

\* data?.key
Get(v, key) ==
  IF v.type = "object" /\ key \in DOMAIN v.fields THEN v.fields[key] ELSE NoValue

----------------------------------------------------------------------------
(* src/src/errors.ts *)

\* The fields taken in the other order: error before message.
extractMessageErrorFirst(body, fallback) ==
  LET p == JsonParse(body) IN
  IF ~p.ok THEN fallback
  ELSE IF Truthy(Get(p.value, "error")) THEN Get(p.value, "error")
  ELSE IF Truthy(Get(p.value, "message")) THEN Get(p.value, "message")
  ELSE fallback

\* data?.message || data?.error || fallback, and the fallback when JSON.parse
\* throws.
extractMessage(body, fallback) ==
  LET p == JsonParse(body) IN
  IF ~p.ok THEN fallback
  ELSE IF Truthy(Get(p.value, "message")) THEN Get(p.value, "message")
  ELSE IF Truthy(Get(p.value, "error")) THEN Get(p.value, "error")
  ELSE fallback

LnBotError(message, status, body) ==
  [name |-> "LnBotError", message |-> message, status |-> status, body |-> body]

BadRequestError(body) ==
  [name |-> "BadRequestError", message |-> extractMessage(body, Str("Bad Request")),
   status |-> 400, body |-> body]

UnauthorizedError(body) ==
  [name |-> "UnauthorizedError", message |-> extractMessage(body, Str("Unauthorized")),
   status |-> 401, body |-> body]

ForbiddenError(body) ==
  [name |-> "ForbiddenError", message |-> extractMessage(body, Str("Forbidden")),
   status |-> 403, body |-> body]

NotFoundError(body) ==
  [name |-> "NotFoundError", message |-> extractMessage(body, Str("Not Found")),
   status |-> 404, body |-> body]

ConflictError(body) ==
  [name |-> "ConflictError", message |-> extractMessage(body, Str("Conflict")),
   status |-> 409, body |-> body]

\* What res.json() rejects with when the body is not JSON.
SyntaxError == [name |-> "SyntaxError"]

\* What a read of the body rejects with when the connection breaks, and what
\* fetch and the body reject with when the signal passed to fetch is triggered.
TransportError == [name |-> "TypeError"]
AbortError == [name |-> "AbortError"]

----------------------------------------------------------------------------
(* Inputs *)

EventPrefix == <<"e", "v", "e", "n", "t", ":">>
DataPrefix == <<"d", "a", "t", "a", ":">>

\* The lines a server may write, as bytes, without their terminator.
LineLib ==
  { EventPrefix \o <<"a">>,
    EventPrefix \o <<Lead, Cont>>,
    DataPrefix \o <<"1">>,
    DataPrefix \o <<" ", "2">>,
    DataPrefix \o <<"k">>,
    DataPrefix,
    <<>> }

RECURSIVE LineSeqs(_)
LineSeqs(n) ==
  IF n = 0 THEN {<<>>}
  ELSE LET shorter == LineSeqs(n - 1) IN
       shorter \cup {Append(ls, l) : ls \in {x \in shorter : Len(x) = n - 1}, l \in LineLib}

\* The lines, each followed by a line feed.
RECURSIVE Join(_)
Join(ls) == IF ls = <<>> THEN <<>> ELSE Append(ls[1], LF) \o Join(Tail(ls))

\* What may follow the last line feed of a body: nothing, or a complete data
\* line that lacks its line feed.
Fragments == {<<>>, DataPrefix \o <<"1">>}

\* Stream bodies: at most n lines, the last of them possibly unterminated.
BodiesUpTo(n) ==
  LET all == {Join(ls) : ls \in LineSeqs(n)}
                \cup {Join(ls) \o f : ls \in LineSeqs(n - 1), f \in Fragments}
  IN {b \in all : Len(b) <= MaxBodyBytes}

Payloads == BodiesUpTo(MaxLines)

\* The values of the event field of InvoiceEvent and PaymentEvent.
SettledEvent == <<"s", "e", "t", "t", "l", "e", "d">>
ExpiredEvent == <<"e", "x", "p", "i", "r", "e", "d">>
FailedEvent == <<"f", "a", "i", "l", "e", "d">>

InvoiceEvents == {SettledEvent, ExpiredEvent}
PaymentEvents == {SettledEvent, FailedEvent}

\* A body in which a server goes on writing after a settled record.
TerminalBodies ==
  { Join(<<EventPrefix \o SettledEvent, DataPrefix \o <<"1">>,
           EventPrefix \o SettledEvent, DataPrefix \o <<" ", "2">>>>) }

\* s with a carriage return put before each of its line feeds.
RECURSIVE Crlf(_)
Crlf(s) ==
  IF s = <<>> THEN <<>>
  ELSE IF Head(s) = LF THEN <<CR, LF>> \o Crlf(Tail(s))
  ELSE <<Head(s)>> \o Crlf(Tail(s))

\* The same records terminated by line feeds and by carriage return + line feed.
PlainBodies ==
  { Join(<<EventPrefix \o <<"a">>, DataPrefix \o <<"1">>>>),
    Join(<<DataPrefix \o <<"1">>, EventPrefix \o <<Lead, Cont>>, DataPrefix \o <<" ", "2">>>>) }

\* Bodies of a server that terminates its lines by carriage return + line feed,
\* and one with a carriage return inside a line.
CrlfBodies ==
  {Crlf(b) : b \in PlainBodies}
    \cup {DataPrefix \o <<"1", CR>> \o DataPrefix \o <<"1", LF>>}

\* Bodies of the responses of the request executor and of failed stream opens.
BodyTexts ==
  { <<>>,
    <<"k">>,
    <<"1">>,
    <<"{", "}">>,
    <<"{", "\"message\"", ":", "\"m\"", "}">>,
    <<"{", "\"error\"", ":", "\"e\"", "}">> }

SuccessStatuses == {200, 201, 204}
FailureStatuses == {400, 401, 403, 404, 409, 500}
Statuses == SuccessStatuses \cup FailureStatuses

\* The status text the server sends with a status.
StatusText(status) ==
  IF status = 204 THEN "No Content" ELSE IF status \in SuccessStatuses THEN "OK" ELSE "Error"

\* Values of the content-type header; <<>> stands for a response without one
\* (headers.get gives null, which the code replaces by the empty string).
ContentTypes ==
  { <<>>,
    <<"application/json">>,
    <<"application/json", ";", " ", "charset=utf-8">>,
    <<"text/plain">>,
    <<"Application/JSON">> }

Response(status, ct, hasBody, body) ==
  [status |-> status, statusText |-> StatusText(status), contentType |-> ct,
   hasBody |-> hasBody, body |-> body]

NoResponse == Response(0, <<>>, FALSE, <<>>)

\* Bodies of error responses with both fields, and with fields that are empty
\* or null.
ErrorBodyTexts ==
  { <<"{", "\"message\"", ":", "\"m\"", ",", "\"error\"", ":", "\"e\"", "}">>,
    <<"{", "\"message\"", ":", "\"\"", ",", "\"error\"", ":", "\"e\"", "}">>,
    <<"{", "\"message\"", ":", "\"\"", "}">>,
    <<"{", "\"error\"", ":", "n", "u", "l", "l", "}">>,
    <<"n", "u", "l", "l">> }

RequestResponses ==
  {Response(st, ct, TRUE, b) : st \in Statuses \ {204}, ct \in ContentTypes, b \in BodyTexts}
    \cup {Response(204, ct, FALSE, <<>>) : ct \in ContentTypes}
    \cup {Response(st, <<"application/json">>, TRUE, b) :
            st \in FailureStatuses, b \in ErrorBodyTexts}

ApiKeys == {NoValue, Str(""), Str("key_test")}

\* URLs are sequences of segments and slashes.
DefaultBaseUrl == <<"https:", "/", "/", "api.ln.bot">>
CustomBaseUrl == <<"https:", "/", "/", "custom.api.com">>

\* The result of a string expression: a string holding the text.
Text(t) == [type |-> "string", text |-> t]

\* Values of the baseUrl option: none, or a URL with no, one or two slashes at
\* its end, or with a path.
BaseUrls ==
  { NoValue,
    Text(CustomBaseUrl),
    Text(CustomBaseUrl \o <<"/">>),
    Text(CustomBaseUrl \o <<"/", "/">>),
    Text(CustomBaseUrl \o <<"/", "api", "/">>) }

\* The configurations clients are constructed with.  Every value of baseUrl
\* goes with the client that has no credential.
Configs ==
  {[apiKey |-> NoValue, baseUrl |-> u] : u \in BaseUrls}
    \cup {[apiKey |-> k, baseUrl |-> Text(CustomBaseUrl \o <<"/">>)] : k \in ApiKeys \ {NoValue}}

\* The paths the resources pass to the request executor, one for each method,
\* and the paths of the streams.
Path(op, method) ==
  CASE op = "invoices.watch" -> <<"/", "v1", "/", "invoices", "/", "1", "/", "events">>
    [] op = "payments.watch" -> <<"/", "v1", "/", "payments", "/", "1", "/", "events">>
    [] op = "events.stream" -> <<"/", "v1", "/", "events">>
    [] method = "GET" -> <<"/", "v1", "/", "wallets", "/", "current">>
    [] method = "POST" -> <<"/", "v1", "/", "wallets">>
    [] method = "PATCH" -> <<"/", "v1", "/", "wallets", "/", "current">>
    [] OTHER -> <<"/", "v1", "/", "webhooks", "/", "1">>

\* The responses a stream open is answered with.  The decode loop never reads
\* the configuration, so the long bodies are sent to the client that has a
\* credential and the other clients get the bodies of at most one line; the
\* loop of payments.watch is statement for statement that of invoices.watch,
\* and it gets the bodies one line shorter.  The watchers are also sent the
\* body that goes on after a settled record.  The client with the empty
\* credential is also sent the bodies with carriage returns.
StreamBodies(apiKey, op) ==
  IF apiKey = Str("") THEN BodiesUpTo(1) \cup PlainBodies \cup CrlfBodies
  ELSE IF apiKey # Str("key_test") THEN BodiesUpTo(1)
  ELSE IF op = "payments.watch" THEN BodiesUpTo(MaxLines - 1) \cup TerminalBodies
  ELSE IF op = "invoices.watch" THEN Payloads \cup TerminalBodies
  ELSE Payloads

StreamResponses(apiKey, op) ==
  {Response(200, <<"text/event-stream">>, TRUE, b) : b \in StreamBodies(apiKey, op)}
    \cup {Response(200, <<"text/event-stream">>, FALSE, <<>>)}
    \cup {Response(st, <<"application/json">>, TRUE, b) :
            st \in FailureStatuses, b \in BodyTexts}

Methods == {"GET", "POST", "PATCH", "DELETE"}

\* Body arguments of the request executor: get and del pass none.
Bodies(method) ==
  IF method \in {"GET", "DELETE"} THEN {NoValue}
  ELSE {NoValue, Null, Num(1), Obj(EmptyFields), Obj("m" :> Str("e"))}

StreamOps == {"invoices.watch", "payments.watch", "events.stream"}
WatchOps == {"invoices.watch", "payments.watch"}

----------------------------------------------------------------------------
(* State *)

VARIABLES
  config,     \* the client: [options, baseUrl, apiKey], options being the
              \* configuration it was constructed with
  call,       \* the operation in progress: [op, method, body]
  sent,       \* the request handed to fetch: [method, headers, body]
  res,        \* the response fetch resolved with
  pc,         \* idle | fetching | read | yield | done | failed | closed
  outcome,    \* what the call returned or threw
  reader,     \* the body's reader: none | locked | released
  source,     \* bytes of the body not yet delivered by reader.read()
  pending,    \* the TextDecoder's incomplete byte sequence
  buffer,     \* the generator's buffer
  eventType,  \* the generator's eventType
  lines,      \* lines of the current chunk still to be examined by the for loop
  emitted,    \* events yielded to the consumer, in order
  emittedAt,  \* history: for each emitted event, the number of the line it came from
  lineNo,     \* history: number of lines the for loop has examined
  aborted,    \* the AbortSignal given to the call has been triggered
  emittedAtAbort,  \* history: the number of events emitted when it was triggered
  peer        \* a second streaming call on the same client: its position,
              \* its response body and its generator's own locals

vars == <<config, call, sent, res, pc, outcome, reader, source, pending, buffer,
          eventType, lines, emitted, emittedAt, lineNo, aborted, emittedAtAbort,
          peer>>

signalVars == <<aborted, emittedAtAbort>>

streamVars == <<reader, source, pending, buffer, eventType, lines, emitted,
                emittedAt, lineNo, signalVars>>

NoCall == [op |-> "none", method |-> "", body |-> NoValue]
NoHeaders == [h \in {} |-> <<>>]
NoRequest ==
  [url |-> <<>>, method |-> "", headers |-> NoHeaders,
   body |-> [present |-> FALSE, text |-> <<>>]]
NoOutcome == [tag |-> "none", value |-> NoValue, error |-> NoValue, via |-> "none"]
Returned(v, via) == [tag |-> "value", value |-> v, error |-> NoValue, via |-> via]
Threw(e, via) == [tag |-> "error", value |-> NoValue, error |-> e, via |-> via]

\* No second call.
NoPeer ==
  [op |-> "none", pc |-> "idle", body |-> <<>>, source |-> <<>>, pending |-> <<>>,
   buffer |-> <<>>, eventType |-> <<>>, lines |-> <<>>, emitted |-> <<>>]

\* The replace that removes one slash at the end.
StripOneSlash(url) ==
  IF url # <<>> /\ url[Len(url)] = "/" THEN SubSeq(url, 1, Len(url) - 1) ELSE url

\* .replace(/\/+$/, "")
RECURSIVE StripTrailingSlashes(_)
StripTrailingSlashes(url) ==
  IF url # <<>> /\ url[Len(url)] = "/"
    THEN StripTrailingSlashes(SubSeq(url, 1, Len(url) - 1))
  ELSE url

\* config.baseUrl ?? "https://api.ln.bot"
BaseUrlOrDefault(options) ==
  IF options.baseUrl = NoValue THEN DefaultBaseUrl ELSE options.baseUrl.text

\* The constructor: what this._http.raw holds.
LnBot(options) ==
  [options |-> options,
   baseUrl |-> StripTrailingSlashes(BaseUrlOrDefault(options)),
   apiKey |-> options.apiKey]

Init ==
  /\ peer = NoPeer
  /\ config \in {LnBot(o) : o \in Configs}
  /\ call = NoCall
  /\ sent = NoRequest
  /\ res = NoResponse
  /\ pc = "idle"
  /\ outcome = NoOutcome
  /\ reader = "none"
  /\ source = <<>>
  /\ pending = <<>>
  /\ buffer = <<>>
  /\ eventType = <<>>
  /\ lines = <<>>
  /\ emitted = <<>>
  /\ emittedAt = <<>>
  /\ lineNo = 0
  /\ aborted = FALSE
  /\ emittedAtAbort = 0

----------------------------------------------------------------------------
(* Building the request *)

\* The header set whenever an apiKey is given, the empty string included.
AuthHeaderIfDefined(apiKey) ==
  IF apiKey # NoValue THEN ("Authorization" :> <<"Bearer ", apiKey.s>>) ELSE NoHeaders

AuthHeader(apiKey) ==
  IF Truthy(apiKey) THEN ("Authorization" :> <<"Bearer ", apiKey.s>>) ELSE NoHeaders

\* The header set by the truth of the body value instead of its presence.
ContentTypeHeaderIfTruthy(body) ==
  IF Truthy(body) THEN ("Content-Type" :> <<"application/json">>) ELSE NoHeaders

ContentTypeHeader(body) ==
  IF body # NoValue THEN ("Content-Type" :> <<"application/json">>) ELSE NoHeaders

RequestHeaders(apiKey, body) ==
  ("Accept" :> <<"application/json">>) @@ AuthHeader(apiKey) @@ ContentTypeHeader(body)

\* The body option of fetch: absent, or the text to send.
NoBody == [present |-> FALSE, text |-> <<>>]
RequestBody(body) ==
  IF body # NoValue THEN [present |-> TRUE, text |-> JsonStringify(body)] ELSE NoBody

StreamHeaders(apiKey) == ("Accept" :> <<"text/event-stream">>) @@ AuthHeader(apiKey)

\* LnBot.request up to the await of fetch.
Request(method, body) ==
  /\ pc = "idle"
  /\ call' = [op |-> "request", method |-> method, body |-> body]
  /\ sent' = [url |-> config.baseUrl \o Path("request", method),
              method |-> method, headers |-> RequestHeaders(config.apiKey, body),
              body |-> RequestBody(body)]
  /\ pc' = "fetching"
  /\ UNCHANGED <<peer, config, res, outcome, streamVars>>

\* The first pull of a streaming generator, up to the await of fetch.
OpenStream(op) ==
  /\ pc = "idle"
  /\ call' = [op |-> op, method |-> "GET", body |-> NoValue]
  /\ sent' = [url |-> config.baseUrl \o Path(op, "GET"),
              method |-> "GET", headers |-> StreamHeaders(config.apiKey), body |-> NoBody]
  /\ pc' = "fetching"
  /\ UNCHANGED <<peer, config, res, outcome, streamVars>>

InvoicesWatch == OpenStream("invoices.watch")
PaymentsWatch == OpenStream("payments.watch")
EventsStream == OpenStream("events.stream")

----------------------------------------------------------------------------
(* LnBot.request after fetch *)

\* A success test that lets the statuses from 500 on through.
OkOrServerError(status) == status >= 200 /\ (status <= 299 \/ status >= 500)

\* The success test without its upper limit.
OkNoUpperLimit(status) == status >= 200

\* res.ok
Ok(status) == status >= 200 /\ status <= 299

\* The switch with a default case that takes the message from the body as the
\* five classes do.
ErrorForGenericExtracts(r) ==
  LET text == BodyText(r.body) IN
  CASE r.status = 400 -> BadRequestError(text)
    [] r.status = 401 -> UnauthorizedError(text)
    [] r.status = 403 -> ForbiddenError(text)
    [] r.status = 404 -> NotFoundError(text)
    [] r.status = 409 -> ConflictError(text)
    [] OTHER -> LnBotError(extractMessage(text, Str(r.statusText)), r.status, text)

\* The switch without its case for 409.
ErrorForWithout409(r) ==
  LET text == BodyText(r.body) IN
  CASE r.status = 400 -> BadRequestError(text)
    [] r.status = 401 -> UnauthorizedError(text)
    [] r.status = 403 -> ForbiddenError(text)
    [] r.status = 404 -> NotFoundError(text)
    [] OTHER -> LnBotError(Str(r.statusText), r.status, text)

ErrorFor(r) ==
  LET text == BodyText(r.body) IN
  CASE r.status = 400 -> BadRequestError(text)
    [] r.status = 401 -> UnauthorizedError(text)
    [] r.status = 403 -> ForbiddenError(text)
    [] r.status = 404 -> NotFoundError(text)
    [] r.status = 409 -> ConflictError(text)
    [] OTHER -> LnBotError(Str(r.statusText), r.status, text)

\* res.headers.get("content-type") ?? ""
ContentTypeOf(r) == r.contentType

\* The content-type compared for equality instead of searched.
IsJsonContentTypeExact(ct) == ct = <<"application/json">>

IsJsonContentType(ct) == Includes(ct, <<"application/json">>)

\* res.json()
ResJson(r) ==
  LET p == JsonParse(BodyText(r.body)) IN
  IF p.ok THEN Returned(p.value, "json") ELSE Threw(SyntaxError, "json")

\* The 204 check moved after the content-type branch.
RequestOutcomeLate204(r) ==
  IF ~Ok(r.status) THEN Threw(ErrorFor(r), "text")
  ELSE IF IsJsonContentType(ContentTypeOf(r)) THEN ResJson(r)
  ELSE IF r.status = 204 THEN Returned(NoValue, "none")
  ELSE Returned(Text(BodyText(r.body)), "text")

RequestOutcome(r) ==
  IF ~Ok(r.status) THEN Threw(ErrorFor(r), "text")
  ELSE IF r.status = 204 THEN Returned(NoValue, "none")
  ELSE IF IsJsonContentType(ContentTypeOf(r)) THEN ResJson(r)
  ELSE Returned(Text(BodyText(r.body)), "text")

\* fetch resolved with r: the rest of LnBot.request.
RequestSettle(r) ==
  /\ res' = r
  /\ outcome' = RequestOutcome(r)
  /\ pc' = IF RequestOutcome(r).tag = "error" THEN "failed" ELSE "done"
  /\ UNCHANGED <<peer, config, call, sent, streamVars>>

RequestResolve ==
  /\ pc = "fetching"
  /\ call.op = "request"
  /\ \E r \in RequestResponses : RequestSettle(r)

----------------------------------------------------------------------------
(* The decode loop of the streaming generators *)

LineResult(et, yields, value, threw) ==
  [eventType |-> et, yields |-> yields, value |-> value, threw |-> threw]

\* The for body of the watchers clearing the pending type at every data: line,
\* an empty one included.
WatchLineClearsOnEmpty(line, et) ==
  IF StartsWith(line, EventPrefix)
    THEN LineResult(Trim(Slice(line, 6)), FALSE, NoValue, FALSE)
  ELSE IF StartsWith(line, DataPrefix)
    THEN LET raw == Trim(Slice(line, 5)) IN
         IF raw # <<>> /\ et # <<>>
           THEN LET p == JsonParse(raw) IN
                IF p.ok THEN LineResult(et, TRUE, [event |-> et, data |-> p.value], FALSE)
                ELSE LineResult(<<>>, FALSE, NoValue, FALSE)
         ELSE LineResult(<<>>, FALSE, NoValue, FALSE)
  ELSE LineResult(et, FALSE, NoValue, FALSE)

\* The for body of the watchers yielding whatever the pending type is, the
\* empty one included.
WatchLineUntyped(line, et) ==
  IF StartsWith(line, EventPrefix)
    THEN LineResult(Trim(Slice(line, 6)), FALSE, NoValue, FALSE)
  ELSE IF StartsWith(line, DataPrefix)
    THEN LET raw == Trim(Slice(line, 5)) IN
         IF raw # <<>>
           THEN LET p == JsonParse(raw) IN
                IF p.ok THEN LineResult(et, TRUE, [event |-> et, data |-> p.value], FALSE)
                ELSE LineResult(<<>>, FALSE, NoValue, FALSE)
         ELSE LineResult(et, FALSE, NoValue, FALSE)
  ELSE LineResult(et, FALSE, NoValue, FALSE)

\* The for body of the watchers without its try/catch around JSON.parse.
WatchLineNoCatch(line, et) ==
  IF StartsWith(line, EventPrefix)
    THEN LineResult(Trim(Slice(line, 6)), FALSE, NoValue, FALSE)
  ELSE IF StartsWith(line, DataPrefix)
    THEN LET raw == Trim(Slice(line, 5)) IN
         IF raw # <<>> /\ et # <<>>
           THEN LET p == JsonParse(raw) IN
                IF p.ok THEN LineResult(et, TRUE, [event |-> et, data |-> p.value], FALSE)
                ELSE LineResult(et, FALSE, NoValue, TRUE)
         ELSE LineResult(et, FALSE, NoValue, FALSE)
  ELSE LineResult(et, FALSE, NoValue, FALSE)

\* One pass of the for body of invoices.watch / payments.watch, up to its yield.
WatchLine(line, et) ==
  IF StartsWith(line, EventPrefix)
    THEN LineResult(Trim(Slice(line, 6)), FALSE, NoValue, FALSE)
  ELSE IF StartsWith(line, DataPrefix)
    THEN LET raw == Trim(Slice(line, 5)) IN
         IF raw # <<>> /\ et # <<>>
           THEN LET p == JsonParse(raw) IN
                IF p.ok THEN LineResult(et, TRUE, [event |-> et, data |-> p.value], FALSE)
                ELSE LineResult(<<>>, FALSE, NoValue, FALSE)
         ELSE LineResult(et, FALSE, NoValue, FALSE)
  ELSE LineResult(et, FALSE, NoValue, FALSE)

\* The for body of events.stream pairing data: lines with a pending event:
\* line, as the watchers do.
StreamLineTyped(line, et) ==
  IF StartsWith(line, EventPrefix)
    THEN LineResult(Trim(Slice(line, 6)), FALSE, NoValue, FALSE)
  ELSE IF StartsWith(line, DataPrefix)
    THEN LET raw == Trim(Slice(line, 5)) IN
         IF raw # <<>> /\ et # <<>>
           THEN LET p == JsonParse(raw) IN
                IF p.ok THEN LineResult(<<>>, TRUE, p.value, FALSE)
                ELSE LineResult(<<>>, FALSE, NoValue, FALSE)
         ELSE LineResult(et, FALSE, NoValue, FALSE)
  ELSE LineResult(et, FALSE, NoValue, FALSE)

\* The for body of events.stream taking only the lines that start with data:
\* and a space.
StreamLineNeedsSpace(line, et) ==
  IF ~StartsWith(line, DataPrefix \o <<" ">>) THEN LineResult(et, FALSE, NoValue, FALSE)
  ELSE LET raw == Trim(Slice(line, 5)) IN
       IF raw = <<>> THEN LineResult(et, FALSE, NoValue, FALSE)
       ELSE LET p == JsonParse(raw) IN
            IF p.ok THEN LineResult(et, TRUE, p.value, FALSE)
            ELSE LineResult(et, FALSE, NoValue, FALSE)

\* One pass of the for body of events.stream, up to its yield.
StreamLine(line, et) ==
  IF ~StartsWith(line, DataPrefix) THEN LineResult(et, FALSE, NoValue, FALSE)
  ELSE LET raw == Trim(Slice(line, 5)) IN
       IF raw = <<>> THEN LineResult(et, FALSE, NoValue, FALSE)
       ELSE LET p == JsonParse(raw) IN
            IF p.ok THEN LineResult(et, TRUE, p.value, FALSE)
            ELSE LineResult(et, FALSE, NoValue, FALSE)

LineStep(op, line, et) ==
  IF op \in WatchOps THEN WatchLine(line, et) ELSE StreamLine(line, et)

\* The generator resumed without clearing eventType.
AfterYieldKeep(op, et) == et

\* The statement after the yield: the watchers clear eventType when resumed.
AfterYield(op, et) == IF op \in WatchOps THEN <<>> ELSE et

\* The for loop from its current line to its next suspension: a yield (pc yield,
\* ls the lines after the yielding one), the end of the lines (pc read: the
\* loop goes back to reader.read()), or an exception leaving the loop (pc failed).
RECURSIVE RunLines(_, _, _, _)
RunLines(op, ls, et, n) ==
  IF ls = <<>>
    THEN [pc |-> "read", lines |-> <<>>, eventType |-> et, value |-> NoValue, n |-> n]
  ELSE LET r == LineStep(op, Head(ls), et) IN
    IF r.threw
      THEN [pc |-> "failed", lines |-> <<>>, eventType |-> r.eventType,
            value |-> NoValue, n |-> n + 1]
    ELSE IF r.yields
      THEN [pc |-> "yield", lines |-> Tail(ls), eventType |-> r.eventType,
            value |-> r.value, n |-> n + 1]
    ELSE RunLines(op, Tail(ls), r.eventType, n + 1)

\* The lock on the body when the try block is left by a break out of the while
\* loop only: releaseLock() placed after the loop instead of in a finally block.
ExitLoopAfterLoop(path) == IF path = "break" THEN "released" ELSE "locked"

\* The lock on the body when the try block is left by a break, by an exception
\* or by the consumer's return(): the finally block runs reader.releaseLock().
ExitLoop(path) == "released"

\* The generator's state after the loop ran to its next suspension.
Advance(run) ==
  /\ lines' = run.lines
  /\ eventType' = run.eventType
  /\ lineNo' = run.n
  /\ pc' = run.pc
  /\ IF run.pc = "yield"
       THEN /\ emitted' = Append(emitted, run.value)
            /\ emittedAt' = Append(emittedAt, run.n)
       ELSE UNCHANGED <<emitted, emittedAt>>
  /\ IF run.pc = "failed"
       THEN /\ outcome' = Threw(SyntaxError, "stream")
            /\ reader' = ExitLoop("throw")
       ELSE UNCHANGED <<outcome, reader>>

\* The generator without its check of the body.
BodyMissingNever(r) == FALSE

\* !res.body
BodyMissing(r) == ~r.hasBody

\* fetch resolved for a streaming generator: the ok check, the body check,
\* getReader() and the generator's locals.
StreamSettle(r) ==
  /\ res' = r
  /\ IF ~Ok(r.status)
       THEN /\ outcome' = Threw(LnBotError(Str(r.statusText), r.status, BodyText(r.body)), "text")
            /\ pc' = "failed"
            /\ UNCHANGED streamVars
     ELSE IF BodyMissing(r)
       THEN /\ outcome' = Returned(NoValue, "none")
            /\ pc' = "done"
            /\ UNCHANGED streamVars
     ELSE /\ reader' = "locked"
          /\ source' = r.body
          /\ pending' = <<>>
          /\ buffer' = <<>>
          /\ eventType' = <<>>
          /\ pc' = "read"
          /\ UNCHANGED <<outcome, lines, emitted, emittedAt, lineNo, signalVars>>
  /\ UNCHANGED <<peer, config, call, sent>>

StreamResolve ==
  /\ pc = "fetching"
  /\ call.op \in StreamOps
  /\ \E r \in StreamResponses(config.apiKey, call.op) : StreamSettle(r)

\* A buffer that keeps the last terminated line along with the fragment.
NextBufferUnsplit(parts) ==
  IF Len(parts) > 1
    THEN parts[Len(parts) - 1] \o <<LF>> \o parts[Len(parts)]
  ELSE parts[1]

\* buffer after a chunk: lines.pop()
NextBuffer(parts) == PopValue(parts)

\* reader.read() resolved with a chunk of n bytes: decode, split, and the for
\* loop up to its first yield.
ReadValue(n) ==
  /\ LET d == Decode(pending, SubSeq(source, 1, n))
         parts == Split(buffer \o d.text)
     IN /\ source' = SubSeq(source, n + 1, Len(source))
        /\ pending' = d.pend
        /\ buffer' = NextBuffer(parts)
        /\ Advance(RunLines(call.op, Popped(parts), eventType, lineNo))
  /\ UNCHANGED <<peer, config, call, sent, res, signalVars>>

\* The byte source delivers its next chunk, of any length.
ReadChunk ==
  /\ pc = "read"
  /\ ~aborted
  /\ \E n \in 1..Len(source) : ReadValue(n)

\* The consumer pulls again: the generator resumes after its yield.
Resume ==
  /\ pc = "yield"
  /\ Advance(RunLines(call.op, lines, AfterYield(call.op, eventType), lineNo))
  /\ UNCHANGED <<peer, config, call, sent, res, source, pending, buffer, signalVars>>

\* A loop that breaks at a read whatever the read resolved with.
DoneEarly(src) == TRUE

\* The done of a resolved read: the source has nothing left to deliver.
Done(src) == src = <<>>

\* reader.read() resolved with done: break, then the finally block.
ReadDone ==
  /\ pc = "read"
  /\ Done(source)
  /\ reader' = ExitLoop("break")
  /\ outcome' = Returned(NoValue, "none")
  /\ pc' = "done"
  /\ UNCHANGED <<peer, config, call, sent, res, source, pending, buffer, eventType, lines,
                 emitted, emittedAt, lineNo, signalVars>>

\* The error reader.read() rejects with: the signal's AbortError once the signal
\* has been triggered, the transport's error otherwise.
ReadError == IF aborted THEN AbortError ELSE TransportError

\* The rejection caught inside the loop and the generator ended normally.
RejectedSwallowed(e) == Returned(NoValue, "read")

\* The await of reader.read() stands in a try block that has no catch clause:
\* the generator's pull rejects with the error of the read.
Rejected(e) == Threw(e, "read")

\* reader.read() rejected: the exception leaves the try block through the
\* finally block and the pull that performed the read rejects with it.
ReadFail ==
  /\ pc = "read"
  /\ reader' = ExitLoop("throw")
  /\ outcome' = Rejected(ReadError)
  /\ pc' = "failed"
  /\ UNCHANGED <<peer, config, call, sent, res, source, pending, buffer, eventType, lines,
                 emitted, emittedAt, lineNo, signalVars>>

\* The consumer stops iterating after an event (break out of for await calls
\* the generator's return()): the suspended yield completes with a return, the
\* finally block runs and the generator is finished.
Return ==
  /\ pc = "yield"
  /\ reader' = ExitLoop("return")
  /\ outcome' = Returned(NoValue, "return")
  /\ pc' = "closed"
  /\ UNCHANGED <<peer, config, call, sent, res, source, pending, buffer, eventType, lines,
                 emitted, emittedAt, lineNo, signalVars>>

\* The caller triggers the signal it passed to the streaming operation.  The
\* generators hand the signal to fetch and never look at it themselves.  A
\* pending fetch rejects, and so does a pending reader.read(), which leaves the
\* try block through the finally block; a generator suspended at a yield is not
\* touched, and its next reader.read() will reject.
Abort ==
  /\ call.op \in StreamOps
  /\ pc \in {"fetching", "read", "yield"}
  /\ ~aborted
  /\ aborted' = TRUE
  /\ emittedAtAbort' = Len(emitted)
  /\ CASE pc = "fetching" ->
            /\ outcome' = Threw(AbortError, "fetch")
            /\ pc' = "failed"
            /\ UNCHANGED reader
       [] pc = "read" ->
            /\ outcome' = Rejected(AbortError)
            /\ pc' = "failed"
            /\ reader' = ExitLoop("throw")
       [] pc = "yield" -> UNCHANGED <<outcome, pc, reader>>
  /\ UNCHANGED <<peer, config, call, sent, res, source, pending, buffer, eventType, lines,
                 emitted, emittedAt, lineNo>>

----------------------------------------------------------------------------
(* Two calls on one client *)

\* The bodies the two streams of a pair of calls are answered with.
PairBodies ==
  { Join(<<EventPrefix \o <<"a">>, DataPrefix \o <<"1">>>>),
    Join(<<DataPrefix \o <<" ", "2">>, EventPrefix \o <<Lead, Cont>>, DataPrefix \o <<"1">>>>) }

PairResponses == {Response(200, <<"text/event-stream">>, TRUE, b) : b \in PairBodies}

\* fetch resolved for the first call of a pair.
PairResolve ==
  /\ pc = "fetching"
  /\ call.op \in StreamOps
  /\ \E r \in PairResponses : StreamSettle(r)

\* The first call of a pair may be a request instead: a GET, answered with a
\* JSON body or with an error.
PairRequest == Request("GET", NoValue)

PairRequestResponses ==
  { Response(200, <<"application/json">>, TRUE, <<"{", "\"message\"", ":", "\"m\"", "}">>),
    Response(404, <<"application/json">>, TRUE, <<"{", "\"error\"", ":", "\"e\"", "}">>) }

PairRequestResolve ==
  /\ pc = "fetching"
  /\ call.op = "request"
  /\ \E r \in PairRequestResponses : RequestSettle(r)

\* The variable of a generator declared outside it: the two calls see one and
\* the same.
Shared(own, other) == other

\* buffer, eventType and decoder are declared inside the generator function:
\* each call has its own, and reads and writes no other call's.
Local(own, other) == own

\* The second call's first pull, up to the await of fetch.  It reads the
\* client's configuration and changes nothing of it.
PeerOpen(op) ==
  /\ peer.pc = "idle"
  /\ pc # "idle"
  /\ peer' = [peer EXCEPT !.op = op, !.pc = "fetching"]
  /\ UNCHANGED <<config, call, sent, res, pc, outcome, streamVars>>

PeerInvoicesWatch == PeerOpen("invoices.watch")
PeerPaymentsWatch == PeerOpen("payments.watch")
PeerEventsStream == PeerOpen("events.stream")

\* fetch resolved for the second call: getReader() and its generator's locals.
PeerResolve ==
  /\ peer.pc = "fetching"
  /\ \E r \in PairResponses :
       peer' = [peer EXCEPT !.pc = "read", !.body = r.body, !.source = r.body,
                            !.pending = <<>>, !.buffer = <<>>, !.eventType = <<>>]
  /\ UNCHANGED <<config, call, sent, res, pc, outcome, streamVars>>

\* The second generator after its loop ran to its next suspension.
PeerAdvance(p, run) ==
  [p EXCEPT !.pc = run.pc, !.lines = run.lines, !.eventType = run.eventType,
            !.emitted = IF run.pc = "yield" THEN Append(p.emitted, run.value)
                        ELSE p.emitted]

\* The second call's reader.read() resolved with a chunk of n bytes.
PeerReadValue(n) ==
  /\ LET d == Decode(Local(peer.pending, pending), SubSeq(peer.source, 1, n))
         parts == Split(Local(peer.buffer, buffer) \o d.text)
         p == [peer EXCEPT !.source = SubSeq(peer.source, n + 1, Len(peer.source)),
                           !.pending = d.pend,
                           !.buffer = NextBuffer(parts)]
     IN peer' = PeerAdvance(p, RunLines(peer.op, Popped(parts),
                                        Local(peer.eventType, eventType), 0))
  /\ UNCHANGED <<config, call, sent, res, pc, outcome, streamVars>>

PeerReadChunk ==
  /\ peer.pc = "read"
  /\ \E n \in 1..Len(peer.source) : PeerReadValue(n)

\* The consumer of the second call pulls again.
PeerResume ==
  /\ peer.pc = "yield"
  /\ peer' = PeerAdvance(peer, RunLines(peer.op, peer.lines,
                                         AfterYield(peer.op, Local(peer.eventType, eventType)), 0))
  /\ UNCHANGED <<config, call, sent, res, pc, outcome, streamVars>>

\* The second call's reader.read() resolved with done.
PeerReadDone ==
  /\ peer.pc = "read"
  /\ peer.source = <<>>
  /\ peer' = [peer EXCEPT !.pc = "done"]
  /\ UNCHANGED <<config, call, sent, res, pc, outcome, streamVars>>

\* A client that has a credential.
InitPair == Init /\ config.apiKey = Str("key_test")

\* Two streaming calls on one client, their steps interleaved in any order.
NextPair ==
  \/ PairRequest
  \/ PairRequestResolve
  \/ InvoicesWatch
  \/ PaymentsWatch
  \/ EventsStream
  \/ PairResolve
  \/ ReadChunk
  \/ Resume
  \/ ReadDone
  \/ PeerInvoicesWatch
  \/ PeerPaymentsWatch
  \/ PeerEventsStream
  \/ PeerResolve
  \/ PeerReadChunk
  \/ PeerResume
  \/ PeerReadDone

SpecPair == InitPair /\ [][NextPair]_vars

----------------------------------------------------------------------------

Next ==
  \/ \E m \in Methods : \E b \in Bodies(m) : Request(m, b)
  \/ InvoicesWatch
  \/ PaymentsWatch
  \/ EventsStream
  \/ RequestResolve
  \/ StreamResolve
  \/ ReadChunk
  \/ Resume
  \/ ReadDone
  \/ ReadFail
  \/ Return
  \/ Abort

Spec == Init /\ [][Next]_vars

\* The step of ReadChunk as the byte source sees it: a read is pending, the
\* signal has not been triggered, and the source hands over some of its bytes.
Delivers ==
  /\ pc = "read"
  /\ ~aborted
  /\ \E n \in 1..Len(source) : source' = SubSeq(source, n + 1, Len(source))

\* The byte source goes on delivering and in the end signals the end of the
\* stream, a read issued after the signal was triggered rejects, and the
\* consumer keeps pulling.
Fairness ==
  /\ WF_source(Delivers)
  /\ WF_vars(ReadDone)
  /\ WF_vars(aborted /\ ReadFail)
  /\ WF_vars(Resume)

InitLive == Init /\ config.apiKey = Str("")

SpecLive == InitLive /\ [][Next]_vars /\ Fairness

----------------------------------------------------------------------------
(* What the claims speak of *)

Settled == pc \notin {"idle", "fetching"} /\ res # NoResponse
IsRequest == call.op = "request"
IsStream == call.op \in StreamOps
IsWatch == call.op \in WatchOps

\* The decode loop has started on the body.
Decoding == IsStream /\ reader # "none"

\* The terminated lines of the whole body, in order.
BodyLines == Popped(Split(Decode(<<>>, res.body).text))

IsEventLine(l) == StartsWith(l, EventPrefix)
IsDataLine(l) == ~IsEventLine(l) /\ StartsWith(l, DataPrefix)
EventValue(l) == Trim(Slice(l, 6))
DataPayload(l) == Trim(Slice(l, 5))

\* The number of the last event: line before line i, 0 when there is none.
LastEventBefore(ls, i) ==
  LET js == {j \in 1..(i - 1) : IsEventLine(ls[j])} IN
  IF js = {} THEN 0 ELSE CHOOSE j \in js : \A k \in js : k <= j

IsPrefix(s, t) == Len(s) <= Len(t) /\ SubSeq(t, 1, Len(s)) = s

\* The events of a run in which the consumer pulls until the lines are used up.
RECURSIVE Drain(_, _, _, _)
Drain(op, ls, et, acc) ==
  LET run == RunLines(op, ls, et, 0) IN
  IF run.pc = "yield"
    THEN Drain(op, run.lines, AfterYield(op, run.eventType), Append(acc, run.value))
  ELSE acc

\* The events emitted when the whole body arrives as one chunk.
OneChunk(op, body) ==
  LET d == Decode(<<>>, body) IN Drain(op, Popped(Split(<<>> \o d.text)), <<>>, <<>>)

----------------------------------------------------------------------------
(* C1 *)

\* C1: chunk-boundary independence.  However the body is cut into chunks, the
\* events a stream has emitted so far are the first events of the one-chunk run
\* of the same body, and when the generator completes they are all of them.
ChunkIndependence ==
  Decoding =>
    LET all == OneChunk(call.op, res.body) IN
    /\ IsPrefix(emitted, all)
    /\ pc = "done" => emitted = all

\* A chunk ended inside a multi-byte character of an event: line, after an
\* event had been emitted from an earlier chunk.
ChunkIndependenceWitness ==
  /\ Decoding
  /\ pc = "read"
  /\ emitted # <<>>
  /\ buffer = EventPrefix
  /\ pending = <<Lead>>

----------------------------------------------------------------------------
(* C2 *)

\* C2: event/type pairing in the watchers.  Every emitted event carries the
\* value of the last event: line before its data: line, that event: line comes
\* after the data: line of the event emitted before (no type is used twice), and
\* once the generator has moved past an emission with no event: line since, its
\* pending type is empty.
EventTypePairing ==
  (Decoding /\ IsWatch) =>
    LET ls == BodyLines IN
    /\ \A m \in 1..Len(emitted) :
         LET j == LastEventBefore(ls, emittedAt[m]) IN
         /\ j > 0
         /\ emitted[m].event = EventValue(ls[j])
         /\ m > 1 => emittedAt[m - 1] < j
    /\ ( /\ pc \in {"read", "done"}
         /\ emitted # <<>>
         /\ \A k \in (emittedAt[Len(emitted)] + 1)..lineNo : ~IsEventLine(ls[k]) )
       => eventType = <<>>

\* Two event: lines with different values, then a data: line: the watcher has
\* completed having emitted one event.
EventTypePairingWitness ==
  /\ Decoding /\ IsWatch
  /\ pc = "done"
  /\ Len(BodyLines) = 3
  /\ IsEventLine(BodyLines[1]) /\ IsEventLine(BodyLines[2])
  /\ EventValue(BodyLines[1]) # EventValue(BodyLines[2])
  /\ emittedAt = <<3>>

----------------------------------------------------------------------------
(* C3 *)

\* C3: keepalive tolerance.  Every emitted event comes from a data: line whose
\* payload is valid JSON, a watcher's event never has an empty type, no line of
\* a stream whose response was successful makes it fail (its only failure is a
\* rejected read of the body), and when it completes every line of the body has
\* been examined.
KeepaliveTolerance ==
  Decoding =>
    /\ \A m \in 1..Len(emitted) :
         LET l == BodyLines[emittedAt[m]] IN
         /\ IsDataLine(l)
         /\ JsonParse(DataPayload(l)).ok
         /\ IsWatch => emitted[m].event # <<>>
    /\ pc = "failed" <=> outcome.tag = "error"
    /\ outcome.tag = "error" => outcome.via = "read"
    /\ pc = "done" => lineNo = Len(BodyLines)

\* A data: line that is not JSON came first and an event was emitted from a
\* later line.
KeepaliveToleranceWitness ==
  /\ Decoding
  /\ pc = "done"
  /\ emitted # <<>>
  /\ \E i \in 1..(emittedAt[1] - 1) :
       /\ IsDataLine(BodyLines[i])
       /\ DataPayload(BodyLines[i]) # <<>>
       /\ ~JsonParse(DataPayload(BodyLines[i])).ok

----------------------------------------------------------------------------
(* C4 *)

\* C4: a stream whose response is not successful throws an error carrying the
\* status and the body text, emits nothing, never acquires the reader and reads
\* nothing.
FailedOpenNeverDecodes ==
  (IsStream /\ Settled /\ ~(res.status >= 200 /\ res.status <= 299)) =>
    /\ pc = "failed"
    /\ outcome.tag = "error"
    /\ outcome.error.status = res.status
    /\ outcome.error.body = BodyText(res.body)
    /\ emitted = <<>>
    /\ reader = "none"
    /\ source = <<>> /\ buffer = <<>> /\ lineNo = 0

FailedOpenWitness ==
  /\ IsStream
  /\ pc = "failed"
  /\ res.status = 500
  /\ res.body # <<>>

----------------------------------------------------------------------------
(* C5 *)

\* C5: a stream opened against a 401 response fails with the Unauthorized kind.
StreamOpenUnauthorized ==
  (IsStream /\ Settled /\ res.status = 401) =>
    /\ outcome.tag = "error"
    /\ outcome.error.name = "UnauthorizedError"

----------------------------------------------------------------------------
(* C6 *)

KindOf(status) ==
  CASE status = 400 -> "BadRequestError"
    [] status = 401 -> "UnauthorizedError"
    [] status = 403 -> "ForbiddenError"
    [] status = 404 -> "NotFoundError"
    [] status = 409 -> "ConflictError"
    [] OTHER -> "LnBotError"

\* C6: status mapping of the request executor.  A response outside 200-299 makes
\* the request fail with the kind of its status, the error's status is the
\* response's, its body is the response text, and nothing is returned.
StatusMapping ==
  (IsRequest /\ Settled /\ ~(res.status >= 200 /\ res.status <= 299)) =>
    /\ pc = "failed"
    /\ outcome.tag = "error"
    /\ outcome.value = NoValue
    /\ outcome.error.name = KindOf(res.status)
    /\ outcome.error.status = res.status
    /\ outcome.error.body = BodyText(res.body)

StatusMappingWitness ==
  /\ IsRequest
  /\ pc = "failed"
  /\ res.status = 409
  /\ outcome.error.name = "ConflictError"
  /\ res.body # <<>>

----------------------------------------------------------------------------
(* C7 *)

\* C7: a 204 response makes the request succeed with no value, whatever its
\* content-type, and no accessor of the body is called.
NoContentSucceeds ==
  (IsRequest /\ Settled /\ res.status = 204) =>
    /\ pc = "done"
    /\ outcome.tag = "value"
    /\ outcome.value = NoValue
    /\ outcome.via = "none"

NoContentWitness ==
  /\ IsRequest
  /\ pc = "done"
  /\ res.status = 204
  /\ res.contentType = <<"application/json">>

----------------------------------------------------------------------------
(* C8 *)

SaysJson == Includes(res.contentType, <<"application/json">>)

SuccessWithContent ==
  IsRequest /\ Settled /\ res.status >= 200 /\ res.status <= 299 /\ res.status # 204

\* C8 as stated: for a successful response other than 204 the result is the
\* parsed JSON body exactly when the content-type contains application/json, and
\* the raw text otherwise.
ContentTypeBranching ==
  SuccessWithContent =>
    /\ outcome.tag = "value"
    /\ IF SaysJson
         THEN outcome.via = "json" /\ JsonOk(outcome.value) = JsonParse(BodyText(res.body))
         ELSE outcome.via = "text" /\ outcome.value = Text(BodyText(res.body))

\* C8 as amended: the body is parsed as JSON exactly when the content-type
\* contains application/json; the result is then the parsed value when the
\* body is valid JSON, and the request rejects with the parser's SyntaxError when
\* it is not.  For any other content-type the result is the raw text.
ContentTypeBranchingAmended ==
  SuccessWithContent =>
    IF SaysJson
      THEN /\ outcome.via = "json"
           /\ IF JsonParse(BodyText(res.body)).ok
                THEN /\ outcome.tag = "value"
                     /\ JsonOk(outcome.value) = JsonParse(BodyText(res.body))
                ELSE /\ outcome.tag = "error"
                     /\ outcome.error = SyntaxError
      ELSE /\ outcome.via = "text"
           /\ outcome.tag = "value"
           /\ outcome.value = Text(BodyText(res.body))

\* A content-type that contains application/json without being equal to it,
\* and a JSON body.
ContentTypeBranchingWitness ==
  /\ SuccessWithContent
  /\ SaysJson
  /\ res.contentType # <<"application/json">>
  /\ outcome.tag = "value"
  /\ outcome.value = Obj("message" :> Str("m"))

----------------------------------------------------------------------------
(* C9 *)

HasCredential == config.apiKey \notin {NoValue, Str("")}

\* C9: every call carries Authorization: Bearer <credential> when the client has
\* a credential and no Authorization header when it has none; a header with an
\* empty token is never sent.
CredentialTransport ==
  pc # "idle" =>
    /\ IF HasCredential
         THEN /\ "Authorization" \in DOMAIN sent.headers
              /\ sent.headers["Authorization"] = <<"Bearer ", config.apiKey.s>>
         ELSE "Authorization" \notin DOMAIN sent.headers
    /\ "Authorization" \in DOMAIN sent.headers
         => sent.headers["Authorization"] # <<"Bearer ", "">>

\* A stream opened by a client whose credential is the empty string.
CredentialTransportWitness ==
  /\ IsStream
  /\ pc = "fetching"
  /\ config.apiKey = Str("")
  /\ DOMAIN sent.headers = {"Accept"}

----------------------------------------------------------------------------
(* C10 *)

\* C10: the request executor sets Content-Type: application/json exactly when a
\* body value is given and sends a body, the JSON text of that value, exactly
\* then; GET and DELETE calls send neither.
ContentTypeIffBody ==
  (IsRequest /\ pc # "idle") =>
    /\ "Content-Type" \in DOMAIN sent.headers <=> call.body # NoValue
    /\ sent.body.present <=> call.body # NoValue
    /\ call.body # NoValue =>
         /\ sent.headers["Content-Type"] = <<"application/json">>
         /\ JsonParse(sent.body.text) = JsonOk(call.body)
    /\ call.method \in {"GET", "DELETE"} =>
         /\ "Content-Type" \notin DOMAIN sent.headers
         /\ ~sent.body.present

\* A POST without a body value.
ContentTypeIffBodyWitness ==
  /\ IsRequest
  /\ pc = "fetching"
  /\ call.method = "POST"
  /\ call.body = NoValue
  /\ DOMAIN sent.headers \cap {"Content-Type"} = {}
  /\ ~sent.body.present

----------------------------------------------------------------------------
(* C11 *)

Terminated == pc \in {"done", "failed", "closed"}

\* C11: guaranteed release.  A stream that has acquired the reader holds its
\* lock exactly while the generator is running or suspended, and has released it
\* once the generator has terminated, whether by end of stream, by a failed
\* read, or by the consumer stopping after an event.
GuaranteedRelease ==
  /\ reader # "none" => IsStream
  /\ Decoding =>
       /\ pc \in {"read", "yield"} \cup {"done", "failed", "closed"}
       /\ pc \in {"read", "yield"} => reader = "locked"
       /\ Terminated => reader = "released"

\* The consumer stopped after the first event while the body still had bytes
\* to deliver and the loop still had lines to examine.
GuaranteedReleaseWitness ==
  /\ Decoding
  /\ pc = "closed"
  /\ Len(emitted) = 1
  /\ lines # <<>>
  /\ source # <<>>
  /\ reader = "released"

----------------------------------------------------------------------------
(* C12 *)

\* C12: cancellation.  Once the signal given to a streaming operation has been
\* triggered the generator emits no further event: the events emitted are those
\* emitted when it was triggered.
NoEventAfterCancel ==
  (IsStream /\ aborted) => Len(emitted) = emittedAtAbort

----------------------------------------------------------------------------
(* C13 *)

\* The bytes of the body the reader has delivered.
Delivered == SubSeq(res.body, 1, Len(res.body) - Len(source))

FailedRead == Decoding /\ pc = "failed"

\* C13: mid-stream failure.  When a read of an opened stream fails, the pull
\* that performed it rejects with the error of the read; the events emitted are
\* those of the terminated lines of the bytes delivered before, all of them, the
\* loop has no line left, nothing comes from the partial line in the buffer, and
\* the failed generator takes no further step.
MidStreamFailure ==
  /\ [](FailedRead =>
         /\ outcome = Threw(IF aborted THEN AbortError ELSE TransportError, "read")
         /\ emitted = OneChunk(call.op, Delivered)
         /\ lines = <<>>
         /\ lineNo = Len(Popped(Split(Decode(<<>>, Delivered).text)))
         /\ \A m \in 1..Len(emitted) : emittedAt[m] <= lineNo)
  /\ [][~FailedRead]_vars

\* The connection broke after an event had been emitted, with a partial line
\* in the buffer and bytes of the body not yet delivered.
MidStreamFailureWitness ==
  /\ FailedRead
  /\ outcome.error = TransportError
  /\ emitted # <<>>
  /\ buffer # <<>>
  /\ source # <<>>

----------------------------------------------------------------------------
(* C14 *)

\* The numbers of the lines that are data: lines with a payload that is not
\* empty and is valid JSON.
ValidDataLines(ls) ==
  {i \in 1..Len(ls) :
     /\ StartsWith(ls[i], DataPrefix)
     /\ DataPayload(ls[i]) # <<>>
     /\ JsonParse(DataPayload(ls[i])).ok}

\* C14: the wallet-wide stream.  The events events.stream has emitted are the
\* parsed payloads of the valid data: lines among the lines examined, one event
\* for each, in the order of the lines, whatever event: lines the body holds;
\* when the generator completes every terminated line has been examined.
WalletStreamEmitsAll ==
  (Decoding /\ call.op = "events.stream") =>
    LET ls == BodyLines IN
    /\ {emittedAt[m] : m \in 1..Len(emitted)} = {i \in ValidDataLines(ls) : i <= lineNo}
    /\ \A m \in 1..Len(emitted) :
         /\ m > 1 => emittedAt[m - 1] < emittedAt[m]
         /\ emitted[m] = JsonParse(DataPayload(ls[emittedAt[m]])).value
    /\ pc = "done" => lineNo = Len(ls)

\* One event: line followed by two valid data: lines: events.stream has
\* completed having emitted both.
WalletStreamWitness ==
  /\ Decoding /\ call.op = "events.stream"
  /\ pc = "done"
  /\ Len(BodyLines) = 3
  /\ IsEventLine(BodyLines[1])
  /\ emittedAt = <<2, 3>>

----------------------------------------------------------------------------
(* C15 *)

OpenedOk == IsStream /\ Settled /\ res.status >= 200 /\ res.status <= 299

\* C15: empty streams.  A stream whose successful response has no body has
\* completed with no value, no event and no reader; a stream whose body is empty
\* emits nothing, and when its first read signals the end it completes with no
\* value and no error.
EmptyStreamCompletes ==
  /\ (OpenedOk /\ ~res.hasBody) =>
       /\ pc = "done"
       /\ outcome = Returned(NoValue, "none")
       /\ emitted = <<>>
       /\ reader = "none"
  /\ (OpenedOk /\ res.hasBody /\ res.body = <<>>) =>
       /\ emitted = <<>>
       /\ pc \in {"read", "done", "failed"}
       /\ pc = "failed" => outcome.via = "read"
       /\ pc = "done" => outcome = Returned(NoValue, "none") /\ reader = "released"

\* A watcher answered 200 without a body has completed.
EmptyStreamWitness ==
  /\ IsWatch
  /\ OpenedOk
  /\ ~res.hasBody
  /\ pc = "done"

----------------------------------------------------------------------------
(* C16 *)

\* The event types after which a watcher's stream is said to close.
TerminalEvents(op) == IF op = "invoices.watch" THEN InvoiceEvents ELSE PaymentEvents

\* C16: a watcher closes after the terminal event.  An event of a terminal type
\* is the last event emitted, and the generator pulled after it does not go
\* back to reading the body.
ClosesAfterTerminal ==
  (Decoding /\ IsWatch) =>
    \A m \in 1..Len(emitted) :
      emitted[m].event \in TerminalEvents(call.op) =>
        /\ m = Len(emitted)
        /\ pc # "read"

----------------------------------------------------------------------------
(* C17 *)

PeerDecoding == peer.pc \in {"read", "yield", "done"}

\* A step leaves the configuration alone and changes the locals and events of
\* one call at most.
EachItsOwn ==
  /\ config' = config
  /\ \/ peer' = peer
     \/ UNCHANGED <<pending, buffer, eventType, lines, emitted>>

\* Each call is where it would be had it run alone.
EachAsAlone ==
  /\ (IsRequest /\ Settled) => outcome = RequestOutcome(res)
  /\ Decoding =>
       LET all == OneChunk(call.op, res.body) IN
       /\ IsPrefix(emitted, all)
       /\ pc = "done" => emitted = all
  /\ PeerDecoding =>
       LET alone == OneChunk(peer.op, peer.body) IN
       /\ IsPrefix(peer.emitted, alone)
       /\ peer.pc = "done" => peer.emitted = alone

\* C17: non-interference of two calls on one client.  However the steps of the
\* two calls are interleaved, the events each has emitted are the first events
\* of its own body run alone, and all of them when it completes; a request has
\* the outcome its response gives it whatever the other call does; a step of one
\* call changes neither the other call's buffer, pending type, decoder and
\* events, nor the client's configuration.
NonInterference == []EachAsAlone /\ [][EachItsOwn]_vars

\* Both calls are watchers in mid-stream: the first has a type pending and the
\* second holds a partial line, and each has read part of its body.
NonInterferenceWitness ==
  /\ IsWatch /\ pc = "read"
  /\ peer.op \in WatchOps /\ peer.pc = "read"
  /\ eventType # <<>>
  /\ peer.eventType = <<>>
  /\ peer.buffer # <<>>
  /\ source # <<>> /\ peer.source # <<>>

----------------------------------------------------------------------------
(* C18 *)

\* The configured base URL, the default when none is configured.
Configured ==
  IF config.options.baseUrl = NoValue THEN DefaultBaseUrl ELSE config.options.baseUrl.text

\* C18: base URL normalisation.  The client's base URL is the configured one
\* (the default when none is given) without the slashes at its end, all of them;
\* the URL of every request and stream is that base URL followed by the path of
\* the operation, with exactly one slash where they join.
BaseUrlNormalised ==
  LET base == config.baseUrl
      n == Len(config.baseUrl)
  IN /\ IsPrefix(base, Configured)
     /\ \A i \in (n + 1)..Len(Configured) : Configured[i] = "/"
     /\ n > 0 => base[n] # "/"
     /\ pc # "idle" =>
          /\ sent.url = base \o Path(call.op, call.method)
          /\ sent.url[n + 1] = "/"
          /\ sent.url[n + 2] # "/"

\* A stream opened by a client configured with a base URL ending in two slashes.
BaseUrlNormalisedWitness ==
  /\ config.options.baseUrl = Text(CustomBaseUrl \o <<"/", "/">>)
  /\ pc = "fetching"
  /\ call.op = "events.stream"
  /\ sent.url = CustomBaseUrl \o <<"/", "v1", "/", "events">>

----------------------------------------------------------------------------
(* C19 *)

\* The fallback message of the error class of a status.
Fallback(status) ==
  CASE status = 400 -> Str("Bad Request")
    [] status = 401 -> Str("Unauthorized")
    [] status = 403 -> Str("Forbidden")
    [] status = 404 -> Str("Not Found")
    [] status = 409 -> Str("Conflict")

\* A request failed with one of the statuses whose error class extracts its
\* message from the body.
TypedFailure == IsRequest /\ Settled /\ res.status \in {400, 401, 403, 404, 409}

Has(v, key) == v.type = "object" /\ key \in DOMAIN v.fields

\* C19 as stated: the message of the error is the message field of the body
\* when the body is JSON and has that field, otherwise its error field when it
\* has that one, otherwise the fallback; the error's body is the body text.
ExtractMessageByPresence ==
  TypedFailure =>
    LET p == JsonParse(BodyText(res.body)) IN
    /\ outcome.error.body = BodyText(res.body)
    /\ outcome.error.message =
         IF p.ok /\ Has(p.value, "message") THEN p.value.fields["message"]
         ELSE IF p.ok /\ Has(p.value, "error") THEN p.value.fields["error"]
         ELSE Fallback(res.status)

\* A field that counts: present, and neither null nor the empty string nor 0.
Counts(v, key) ==
  /\ Has(v, key)
  /\ v.fields[key] \notin {Null, Str(""), Num(0)}

\* C19 as amended: the message of the error is the message field of the body
\* when the body is JSON and that field is present and not empty, null or 0,
\* otherwise its error field under the same condition, otherwise the fallback; a
\* body that is not JSON gives the fallback; the error's body is the body text.
ExtractMessageByTruth ==
  TypedFailure =>
    LET p == JsonParse(BodyText(res.body)) IN
    /\ outcome.tag = "error"
    /\ outcome.error.body = BodyText(res.body)
    /\ outcome.error.message =
         IF p.ok /\ Counts(p.value, "message") THEN p.value.fields["message"]
         ELSE IF p.ok /\ Counts(p.value, "error") THEN p.value.fields["error"]
         ELSE Fallback(res.status)

\* A body whose message field is the empty string and whose error field is
\* not: the error carries the error field.
ExtractMessageWitness ==
  /\ TypedFailure
  /\ JsonParse(BodyText(res.body)).ok
  /\ Has(JsonParse(BodyText(res.body)).value, "message")
  /\ outcome.error.message = Str("e")

----------------------------------------------------------------------------
(* C20 *)

\* Line i is a data: line whose payload is not empty and is valid JSON.
ValidData(ls, i) ==
  /\ IsDataLine(ls[i])
  /\ DataPayload(ls[i]) # <<>>
  /\ JsonParse(DataPayload(ls[i])).ok

\* C20: in the watchers a data: line that fails to parse leaves the pending
\* type as it is.  A valid data: line that has been examined, and is the first
\* valid one after the last event: line before it, has been emitted, whatever
\* unparseable data: lines stand between the two.
ParseFailureKeepsType ==
  (Decoding /\ IsWatch) =>
    LET ls == BodyLines IN
    \A i \in 1..lineNo :
      LET j == LastEventBefore(ls, i) IN
      ( /\ ValidData(ls, i)
        /\ j > 0
        /\ EventValue(ls[j]) # <<>>
        /\ \A k \in (j + 1)..(i - 1) : ~ValidData(ls, k) )
      => \E m \in 1..Len(emitted) : emittedAt[m] = i

----------------------------------------------------------------------------
(* C21 *)

LFs(s) == {i \in 1..Len(s) : s[i] = LF}

\* The position of the last line feed of s, 0 when it has none.
LastLF(s) == IF LFs(s) = {} THEN 0 ELSE CHOOSE i \in LFs(s) : \A j \in LFs(s) : j <= i

AfterLastLF(s) == SubSeq(s, LastLF(s) + 1, Len(s))

\* The lines of s from position i on that a line feed terminates, the first of
\* them starting at position start.
RECURSIVE LinesFrom(_, _, _)
LinesFrom(s, i, start) ==
  IF i > Len(s) THEN <<>>
  ELSE IF s[i] = LF THEN <<SubSeq(s, start, i - 1)>> \o LinesFrom(s, i + 1, i + 1)
  ELSE LinesFrom(s, i + 1, start)

\* The lines of s that a line feed terminates, read off by one scan of s.
TerminatedLines(s) == LinesFrom(s, 1, 1)

\* C21: the buffer invariant.  Once a stream is decoding, at every suspension
\* (a read pending, an event handed out) and after the generator has ended, the
\* buffer holds no line feed and is the text received after the last line feed
\* received so far, the whole text received when no line feed has come.
BufferIsLastFragment ==
  Decoding =>
    LET text == Decode(<<>>, Delivered).text IN
    /\ \A i \in 1..Len(buffer) : buffer[i] # LF
    /\ buffer = AfterLastLF(text)

\* An event has been handed out while the buffer holds the start of the next
\* line and the source has more to give.
BufferWitness ==
  /\ Decoding
  /\ pc = "yield"
  /\ buffer # <<>>
  /\ lineNo > 0
  /\ source # <<>>

----------------------------------------------------------------------------
(* C22 *)

\* The lines among ls that are data: lines with a non-empty, valid JSON payload.
ValidCount(ls) == Cardinality({k \in 1..Len(ls) : ValidData(ls, k)})

\* C22: the trailing fragment is discarded.  The lines a stream examines, and
\* the lines its events come from, are lines that a line feed terminated in the
\* bytes delivered; when the stream ends, what follows the last line feed is
\* left in the buffer and has produced no event, even when it is a data: line
\* with a valid JSON payload and an event type is pending.
TrailingFragmentDiscarded ==
  Decoding =>
    LET text == Decode(<<>>, Delivered).text
        n == Cardinality(LFs(text))
    IN /\ lineNo <= n
       /\ \A m \in 1..Len(emitted) : emittedAt[m] <= n
       /\ pc = "done" =>
            /\ buffer = AfterLastLF(text)
            /\ Len(emitted) <= ValidCount(TerminatedLines(text))

\* A watcher has completed with a pending event type and an unterminated
\* data:1 in its buffer, and has emitted nothing.
TrailingFragmentWitness ==
  /\ Decoding
  /\ IsWatch
  /\ pc = "done"
  /\ eventType # <<>>
  /\ buffer = DataPrefix \o <<"1">>
  /\ emitted = <<>>

----------------------------------------------------------------------------
(* C23 *)

\* Line k is a data: line with a payload left after trimming.
HasPayload(ls, k) == IsDataLine(ls[k]) /\ DataPayload(ls[k]) # <<>>

\* C23: in the watchers a data: line whose trimmed payload is empty is ignored
\* and leaves the pending type as it is.  A valid data: line that has been
\* examined, with only empty data: lines and other lines between it and the
\* event: line before it, has produced exactly one event, of the type of that
\* event: line and with the parsed payload of the data: line.
EmptyDataIgnored ==
  (Decoding /\ IsWatch) =>
    LET ls == TerminatedLines(Decode(<<>>, res.body).text) IN
    \A i \in 1..lineNo :
      LET j == LastEventBefore(ls, i) IN
      ( /\ ValidData(ls, i)
        /\ j > 0
        /\ EventValue(ls[j]) # <<>>
        /\ \A k \in (j + 1)..(i - 1) : ~HasPayload(ls, k) )
      => /\ Cardinality({m \in 1..Len(emitted) : emittedAt[m] = i}) = 1
         /\ \A m \in 1..Len(emitted) :
              emittedAt[m] = i =>
                emitted[m] = [event |-> EventValue(ls[j]),
                              data |-> JsonParse(DataPayload(ls[i])).value]

\* A watcher has emitted the event of a data: line that follows an empty data:
\* line and an event: line.
EmptyDataWitness ==
  /\ Decoding
  /\ IsWatch
  /\ \E m \in 1..Len(emitted) :
       LET ls == TerminatedLines(Decode(<<>>, res.body).text)
           i == emittedAt[m]
       IN /\ i >= 3
          /\ IsEventLine(ls[i - 2])
          /\ IsDataLine(ls[i - 1])
          /\ DataPayload(ls[i - 1]) = <<>>
          /\ emitted[m].event = EventValue(ls[i - 2])

----------------------------------------------------------------------------
(* C24 *)

\* A request was answered with a status outside 200..299.
AnyFailure == IsRequest /\ Settled /\ res.status \in FailureStatuses

\* C24 as stated: whatever the kind of the error, the Generic one of a status
\* 500 included, a JSON body with a message field that counts gives the error
\* that message, and otherwise one with an error field that counts gives the
\* error that field.
MessageFromBodyWhateverKind ==
  AnyFailure =>
    LET p == JsonParse(BodyText(res.body)) IN
    /\ outcome.tag = "error"
    /\ (p.ok /\ Counts(p.value, "message")) =>
         outcome.error.message = p.value.fields["message"]
    /\ (p.ok /\ ~Counts(p.value, "message") /\ Counts(p.value, "error")) =>
         outcome.error.message = p.value.fields["error"]

\* C24 as amended: the five typed kinds take the message from the message or
\* error field of a JSON body and fall back to their label; the Generic kind
\* never looks into the body, its message is the status text of the response
\* whatever the body holds; every kind keeps the body text.
MessageByKind ==
  AnyFailure =>
    LET p == JsonParse(BodyText(res.body)) IN
    /\ outcome.tag = "error"
    /\ outcome.error.body = BodyText(res.body)
    /\ outcome.error.message =
         IF res.status \notin {400, 401, 403, 404, 409} THEN Str(res.statusText)
         ELSE IF p.ok /\ Counts(p.value, "message") THEN p.value.fields["message"]
         ELSE IF p.ok /\ Counts(p.value, "error") THEN p.value.fields["error"]
         ELSE Fallback(res.status)

\* A status 500 whose JSON body has a message field: the error carries the
\* status text.
MessageByKindWitness ==
  /\ AnyFailure
  /\ res.status = 500
  /\ JsonParse(BodyText(res.body)).ok
  /\ Counts(JsonParse(BodyText(res.body)).value, "message")
  /\ outcome.tag = "error"
  /\ outcome.error.message = Str(res.statusText)

----------------------------------------------------------------------------
(* C25 *)

\* A generator that has completed has taken everything the source had, has
\* released the lock, and has emitted no more events than lines were terminated.
CompletesOnlyAtEnd ==
  (Decoding /\ pc = "done") =>
    /\ source = <<>>
    /\ reader = "released"
    /\ Len(emitted) <= Cardinality(LFs(Decode(<<>>, res.body).text))

\* The generator is over and does not hold the lock.
Over == Terminated /\ reader = "released"

----------------------------------------------------------------------------
(* C26 *)

\* The payload of an emitted event: the watchers wrap it with its type.
PayloadOf(op, e) == IF op \in WatchOps THEN e.data ELSE e

\* C26: order preservation.  The events a stream has emitted come from data:
\* lines with a valid JSON payload, each carrying the parsed payload of its
\* line, and from lines further and further down the stream: the payloads
\* emitted are a subsequence, in order and without repetition, of the valid
\* payloads of the stream.
OrderPreserved ==
  Decoding =>
    LET ls == TerminatedLines(Decode(<<>>, res.body).text) IN
    \A m \in 1..Len(emitted) :
      /\ emittedAt[m] \in 1..Len(ls)
      /\ ValidData(ls, emittedAt[m])
      /\ PayloadOf(call.op, emitted[m]) = JsonParse(DataPayload(ls[emittedAt[m]])).value
      /\ m > 1 => emittedAt[m - 1] < emittedAt[m]

\* Two events with different payloads have been emitted.
OrderPreservedWitness ==
  /\ Decoding
  /\ Len(emitted) >= 2
  /\ PayloadOf(call.op, emitted[1]) # PayloadOf(call.op, emitted[2])

----------------------------------------------------------------------------
(* C27 *)

\* The event: lines with a value among the first n lines of ls.
TypedEventLines(ls, n) ==
  {k \in 1..n : IsEventLine(ls[k]) /\ EventValue(ls[k]) # <<>>}

\* C27: in the watchers every emitted event has a type that is not empty, the
\* value of the last event: line before its data: line; no two events share
\* that event: line, so the events emitted are at most as many as the event:
\* lines with a value examined so far.
TypedAndPaired ==
  (Decoding /\ IsWatch) =>
    LET ls == TerminatedLines(Decode(<<>>, res.body).text) IN
    /\ \A m \in 1..Len(emitted) :
         LET j == LastEventBefore(ls, emittedAt[m]) IN
         /\ emitted[m].event # <<>>
         /\ j > 0
         /\ emitted[m].event = EventValue(ls[j])
         /\ \A o \in 1..(m - 1) : LastEventBefore(ls, emittedAt[o]) # j
    /\ emitted # <<>> => Len(emitted) <= Cardinality(TypedEventLines(ls, lineNo))

\* A watcher has emitted an event after examining more event: lines with a
\* value than it has emitted events.
TypedAndPairedWitness ==
  /\ Decoding
  /\ IsWatch
  /\ emitted # <<>>
  /\ Len(emitted) <
       Cardinality(TypedEventLines(TerminatedLines(Decode(<<>>, res.body).text), lineNo))

----------------------------------------------------------------------------
(* C28 *)

\* s can be had from t by leaving elements out.
RECURSIVE IsSubseq(_, _)
IsSubseq(s, t) ==
  IF s = <<>> THEN TRUE
  ELSE IF t = <<>> THEN FALSE
  ELSE IF Head(s) = Head(t) THEN IsSubseq(Tail(s), Tail(t))
  ELSE IsSubseq(s, Tail(t))

\* The payloads of the events emitted, without their types.
EmittedPayloads == [m \in 1..Len(emitted) |-> PayloadOf(call.op, emitted[m])]

\* C28: the watchers refine the wallet-wide stream.  The payloads a watcher has
\* emitted are a subsequence of the events events.stream emits for the same
\* bytes: the watcher only adds the demand for a pending type.
WatchRefinesStream ==
  (Decoding /\ IsWatch /\ emitted # <<>>) =>
    IsSubseq(EmittedPayloads, OneChunk("events.stream", res.body))

\* A watcher has completed with an event, and with fewer events than
\* events.stream emits for its body.
WatchRefinesStreamWitness ==
  /\ Decoding
  /\ IsWatch
  /\ pc = "done"
  /\ emitted # <<>>
  /\ Len(emitted) < Len(OneChunk("events.stream", res.body))

----------------------------------------------------------------------------
(* C29 *)

\* s without the carriage returns that stand right before a line feed.
RECURSIVE StripCr(_)
StripCr(s) ==
  IF s = <<>> THEN <<>>
  ELSE IF Len(s) >= 2 /\ s[1] = CR /\ s[2] = LF THEN <<LF>> \o StripCr(Tail(Tail(s)))
  ELSE <<Head(s)>> \o StripCr(Tail(s))

HasCr(s) == \E i \in 1..Len(s) : s[i] = CR

\* C29: tolerance of carriage return + line feed.  A stream whose body has
\* carriage returns emits what the one-chunk run emits for the body with each
\* carriage return + line feed replaced by a line feed, types and payloads
\* alike, in all three operations; and it has examined as many lines as line
\* feeds were delivered, a carriage return by itself ending no line.
CrlfTolerance ==
  (Decoding /\ HasCr(res.body)) =>
    LET plain == OneChunk(call.op, StripCr(res.body)) IN
    /\ IsPrefix(emitted, plain)
    /\ pc = "done" =>
         /\ emitted = plain
         /\ lineNo = Cardinality(LFs(Decode(<<>>, res.body).text))

\* A stream whose lines end in carriage return + line feed has completed with
\* an event.
CrlfWitness ==
  /\ Decoding
  /\ pc = "done"
  /\ StripCr(res.body) # res.body
  /\ emitted # <<>>

----------------------------------------------------------------------------
(* C30 *)

\* The reader is held by streams only, was never acquired for an answer that is
\* not a success or has no body, and once released the generator is over: no
\* read is pending or will be issued.
ReaderHeldRight ==
  /\ reader \in {"none", "locked", "released"}
  /\ reader # "none" => IsStream
  /\ (Settled /\ (res.status < 200 \/ res.status > 299 \/ ~res.hasBody)) => reader = "none"
  /\ reader = "released" => Terminated

\* The reader changes hands only by being acquired when the open is answered,
\* or by being released in the step that ends the generator, from a pending
\* read that has settled or from a yield, with no byte taken in that step;
\* after the release nothing is read.
ReaderStep ==
  /\ reader' # reader =>
       \/ /\ reader = "none"
          /\ reader' = "locked"
          /\ pc = "fetching"
       \/ /\ reader = "locked"
          /\ reader' = "released"
          /\ pc \in {"read", "yield"}
          /\ pc' \in {"done", "failed", "closed"}
          /\ source' = source
  /\ reader = "released" =>
       /\ reader' = "released"
       /\ source' = source
       /\ pc' = pc

\* C30: the reader's lifecycle.  In a streaming call the reader is acquired at
\* most once, when a successful answer with a body arrives, and released at
\* most once, in the step that ends the generator and not before the last read
\* has settled; it is never released without having been acquired, and no read
\* follows the release.
ReaderLifecycle == []ReaderHeldRight /\ [][ReaderStep]_vars

\* The consumer stopped at an event with bytes still to come, and the reader
\* was released.
ReaderLifecycleWitness ==
  /\ IsStream
  /\ reader = "released"
  /\ pc = "closed"
  /\ source # <<>>

====
